---- MODULE Spec2Model ----
(***************************************************************************)
(* Model of the streaming result cursor of cursor.go: the Cursor state     *)
(* machine (Next, loadNext, Close, extend, fetchMore, handleError, Err,    *)
(* All, One, IsNil), its two ring-buffer queues, the caller threads and    *)
(* the background fetchMore goroutines.                                    *)
(***************************************************************************)
EXTENDS Integers, Sequences, FiniteSets, TLC

(***************************************************************************)
(* Bounds of the model.                                                    *)
(***************************************************************************)
\* number of server replies a stream may consist of
MaxReplies == 2
\* number of raw batches (elements of Response.Responses) one reply may carry
MaxBatches == 2
\* capacity of the slice a caller may hand to All
MaxDestCap == 1
\* number of Push calls made on the queue that is driven on its own
MaxPushes == 20

(***************************************************************************)
(* Values.  Everything stored in a queue slot is a string; Nil is Go's nil *)
(* (the empty slot, the null row and the nil error are all nil in Go).     *)
(***************************************************************************)
Nil == "<nil>"

errCursorClosed == "connection closed, cannot read cursor"
ErrQuery == "query error"
ErrStop == "stop error"
ErrConnectionClosed == "connection is nil"
ErrJSON == "json: syntax error"
ErrPseudotype == "pseudotype: bad TIME object"
ErrDecode == "decode: type mismatch"
ErrEmptyResult == "the result does not contain any more rows"

\* raw JSON texts a reply may carry besides plain numbers
RawNull == "null"
RawEmptyArray == "[]"
RawArray == "[10,null]"
RawBadJSON == "{"
RawBadTime == "{$reql_type$:TIME}"
RawString == "\"x\""

\* the number carried at the p-th batch position of a stream
ScalarAt(p) == <<"1", "2", "3", "4", "5", "6", "7", "8", "9">>[p]

(***************************************************************************)
(* The queue: a ring buffer {elems, nelems, popi, pushi}.  elems is a      *)
(* sequence, so the slot with Go index i is elems[i + 1].                  *)
(***************************************************************************)
EmptyQueue == [elems |-> <<>>, nelems |-> 0, popi |-> 0, pushi |-> 0]

QLen(q) == q.nelems

ExpandThreshold == 1024
InitialCap == 8

NewCap(curcap) ==
    IF curcap = 0 THEN InitialCap
    ELSE IF curcap < ExpandThreshold THEN curcap * 2
    ELSE curcap + (curcap \div 4)

\* an expand that copies the old slots to the front whatever popi is
QExpandFlat(q) ==
    LET curcap == Len(q.elems)
        newcap == NewCap(curcap)
    IN  [q EXCEPT !.elems = [i \in 1..newcap |->
                                IF i <= curcap THEN q.elems[i] ELSE Nil],
                  !.pushi = curcap]

QExpand(q) ==
    LET curcap == Len(q.elems)
        newcap == NewCap(curcap)
    IN  IF q.popi = 0
        THEN [q EXCEPT !.elems = [i \in 1..newcap |->
                                    IF i <= curcap THEN q.elems[i] ELSE Nil],
                       !.pushi = curcap]
        ELSE LET newpopi == newcap - (curcap - q.popi)
             IN  [q EXCEPT !.elems = [i \in 1..newcap |->
                                        IF i <= q.popi THEN q.elems[i]
                                        ELSE IF i > newpopi
                                             THEN q.elems[i - newpopi + q.popi]
                                             ELSE Nil],
                           !.popi = newpopi]

QPush(q, elem) ==
    LET e == IF q.nelems = Len(q.elems) THEN QExpand(q) ELSE q
    IN  [e EXCEPT !.elems[e.pushi + 1] = elem,
                  !.nelems = e.nelems + 1,
                  !.pushi = (e.pushi + 1) % Len(e.elems)]

\* the element Pop returns
QPopElem(q) == IF q.nelems = 0 THEN Nil ELSE q.elems[q.popi + 1]

\* a Pop that leaves the popped element in its slot
QPopKeepsSlot(q) ==
    IF q.nelems = 0 THEN q
    ELSE [q EXCEPT !.nelems = q.nelems - 1,
                   !.popi = (q.popi + 1) % Len(q.elems)]

\* the queue Pop leaves
QPop(q) ==
    IF q.nelems = 0 THEN q
    ELSE [q EXCEPT !.elems[q.popi + 1] = Nil,
                   !.nelems = q.nelems - 1,
                   !.popi = (q.popi + 1) % Len(q.elems)]

QPeek(q) == IF q.nelems = 0 THEN Nil ELSE q.elems[q.popi + 1]

RECURSIVE QPushAll(_, _)
QPushAll(q, s) == IF s = <<>> THEN q ELSE QPushAll(QPush(q, Head(s)), Tail(s))

\* the live elements of a queue, head first
QContents(q) == [k \in 1..q.nelems |-> q.elems[((q.popi + k - 1) % Len(q.elems)) + 1]]

\* A queue driven on its own: q is the queue, ref the reference sequence
\* (append at the tail, remove at the head), last the last call and got what
\* it returned, pushes and pops the calls that changed the length, wrapped
\* whether expand has run with popi # 0.
QH0 == [q |-> EmptyQueue, ref |-> <<>>, last |-> "none", got |-> Nil,
        pushes |-> 0, pops |-> 0, wrapped |-> FALSE]

\* the element the n-th Push call pushes: a tag of its own, or nil
QueueValue(n) == IF n % 4 = 0 THEN Nil ELSE "v" \o ToString(n)


(***************************************************************************)
(* The collaborators of loadNext: json.Unmarshal, the pseudotype           *)
(* normaliser and encoding.Decode, by what they do on the raw texts above. *)
(* A decoded value is nil, one scalar, or a sequence of rows.              *)
(***************************************************************************)
NilValue == [kind |-> "nil", rows |-> <<>>]

JsonUnmarshal(raw) ==
    IF raw = RawBadJSON THEN [err |-> ErrJSON, value |-> NilValue]
    ELSE IF raw = RawNull THEN [err |-> Nil, value |-> NilValue]
    ELSE IF raw = RawEmptyArray THEN [err |-> Nil, value |-> [kind |-> "array", rows |-> <<>>]]
    ELSE IF raw = RawArray THEN [err |-> Nil, value |-> [kind |-> "array", rows |-> <<"10", Nil>>]]
    ELSE IF raw = RawString THEN [err |-> Nil, value |-> [kind |-> "scalar", rows |-> <<"x">>]]
    ELSE [err |-> Nil, value |-> [kind |-> "scalar", rows |-> <<raw>>]]

recursivelyConvertPseudotype(value) ==
    IF value.kind = "scalar" /\ value.rows = <<RawBadTime>>
    THEN [err |-> ErrPseudotype, value |-> NilValue]
    ELSE [err |-> Nil, value |-> value]

\* encoding.Decode into a numeric destination: a string row does not fit
Decode(data) == IF data = "x" THEN ErrDecode ELSE Nil

\* a loadNext that pushes nothing for a nil value
RowsOfSkipsNil(value) ==
    IF value.kind = "nil" THEN <<>> ELSE value.rows

\* the rows loadNext pushes into buffer for one decoded value (lines 179-187)
RowsOf(value) ==
    IF value.kind = "array" THEN value.rows
    ELSE IF value.kind = "nil" THEN <<Nil>>
    ELSE value.rows

\* the rows one raw batch stands for; none when it does not decode
RowsOfRaw(raw) ==
    LET u == JsonUnmarshal(raw)
        c == recursivelyConvertPseudotype(u.value)
    IN  IF u.err # Nil \/ c.err # Nil THEN <<>> ELSE RowsOf(c.value)

(***************************************************************************)
(* Streams: what the server will send for one query.  A reply is           *)
(* [type, responses].                                                      *)
(***************************************************************************)
SUCCESS_PARTIAL == "SUCCESS_PARTIAL"
SUCCESS_FEED == "SUCCESS_FEED"
SUCCESS_SEQUENCE == "SUCCESS_SEQUENCE"

Specials == {RawNull, RawEmptyArray, RawArray, RawBadJSON, RawBadTime, RawString}

\* the batch counts of the replies of a stream
Shapes == UNION {[1..n -> 0..MaxBatches] : n \in 1..MaxReplies}

RECURSIVE SumTo(_, _)
SumTo(shape, i) == IF i = 0 THEN 0 ELSE shape[i] + SumTo(shape, i - 1)

\* the stream of a shape whose special batches are given by sp (position ->
\* text), with the reply types given
MkStream(shape, sp, midType, lastType) ==
    [i \in 1..Len(shape) |->
        [type |-> IF i = Len(shape) THEN lastType ELSE midType,
         responses |-> [j \in 1..shape[i] |->
                          LET p == SumTo(shape, i - 1) + j
                          IN  IF p \in DOMAIN sp THEN sp[p] ELSE ScalarAt(p)]]]

\* streams of plain numbers: partial replies, then a final one
PlainStreams ==
    {MkStream(shape, <<>>, SUCCESS_PARTIAL, SUCCESS_SEQUENCE) : shape \in Shapes}

\* changefeeds: every reply carries one change and none is final
FeedStreams ==
    {MkStream([i \in 1..n |-> 1], <<>>, SUCCESS_FEED, SUCCESS_FEED) : n \in 1..MaxReplies}

\* streams in which one batch is not a plain number
SpecialStreams ==
    UNION {{MkStream(shape, p :> x, SUCCESS_PARTIAL, SUCCESS_SEQUENCE) :
              p \in 1..SumTo(shape, Len(shape)), x \in Specials} : shape \in Shapes}

Streams == PlainStreams \cup FeedStreams \cup SpecialStreams

RECURSIVE AllRaw(_)
AllRaw(st) == IF st = <<>> THEN <<>> ELSE Head(st).responses \o AllRaw(Tail(st))

RECURSIVE RowsOfAll(_)
RowsOfAll(raws) == IF raws = <<>> THEN <<>> ELSE RowsOfRaw(Head(raws)) \o RowsOfAll(Tail(raws))

\* the rows of a stream, in arrival order
Expected(st) == RowsOfAll(AllRaw(st))


(***************************************************************************)
(* State.                                                                  *)
(***************************************************************************)
VARIABLES
    conn,       \* Cursor.conn: Nil once detached
    lastErr,    \* Cursor.lastErr
    fetching,   \* Cursor.fetching, the atomic idle(0)/fetching(1) flag
    closed,     \* Cursor.closed
    finished,   \* Cursor.finished
    buffer,     \* Cursor.buffer: decoded rows
    responses,  \* Cursor.responses: raw batches
    mu,         \* Cursor.Mutex: Free or the thread holding it
    pc,         \* position of every thread
    loc,        \* local variables of every thread
    spawned,    \* fetchMore goroutines started with "go" that have not run yet
    hb,         \* the iterating thread has synchronised with the write of closed
    stream,     \* the replies the server has for this query
    pending,    \* the replies the server has not sent yet
    started,    \* the query's first reply has been handed to extend
    netUp,      \* conn.conn is not nil
    nContinue,  \* CONTINUE requests sent
    nStop,      \* STOP requests sent
    nRelease,   \* invocations of releaseConn
    relErr,     \* argument of the last releaseConn invocation
    stopErr,    \* result of the STOP request
    yielded,    \* rows Next has delivered with true
    firstErr,   \* first error handed to handleError
    fetchFailed, \* a failed CONTINUE request has been handed to handleError
    errRet,     \* result of the last Err() call
    qh          \* a queue of its own, driven by Push, Pop and Peek calls

vars == <<conn, lastErr, fetching, closed, finished, buffer, responses, mu, pc, loc,
          spawned, hb, stream, pending, started, netUp, nContinue, nStop, nRelease,
          relErr, stopErr, yielded, firstErr, fetchFailed, errRet, qh>>

\* the cursor's part of the state
cursorVars == <<conn, lastErr, fetching, closed, finished, buffer, responses, mu, pc, loc,
                spawned, hb, stream, pending, started, netUp, nContinue, nStop, nRelease,
                relErr, stopErr, yielded, firstErr, fetchFailed, errRet>>

Free == "free"
It == "it"
Cl == "cl"
\* every fetchMore that passes its compare-and-swap follows the first one or
\* an extend, so MaxReplies + 1 goroutine slots are never all in use
BgIds == {"g" \o ToString(i) : i \in 1..(MaxReplies + 1)}
Threads == {It, Cl} \cup BgIds
Callers == {It, Cl}
Fetchers == {It} \cup BgIds

L0 == [conn |-> Nil, err |-> Nil, raw |-> Nil, value |-> NilValue, data |-> Nil,
       hasMore |-> FALSE, ret |-> "none", afterFail |-> FALSE, callClosed |-> FALSE, callStops |-> 0,
       op |-> "none", slicev |-> <<>>, i |-> 0, nextErr |-> Nil,
       errChecked |-> FALSE]

\* the locals of the closing thread and of a fetchMore goroutine
LCl0 == [err |-> Nil, ret |-> "none", callClosed |-> FALSE, callStops |-> 0]
LBg0 == [conn |-> Nil, err |-> Nil]

Locals0(t) == IF t = It THEN L0 ELSE IF t = Cl THEN LCl0 ELSE LBg0

\* the cursor as newCursor (lines 18-27) leaves it
Boot ==
    /\ conn = "conn"
    /\ lastErr = Nil
    /\ fetching = 0
    /\ closed = FALSE
    /\ finished = FALSE
    /\ buffer = EmptyQueue
    /\ responses = EmptyQueue
    /\ mu = Free
    /\ pc = [t \in Threads |-> "idle"]
    /\ loc = [t \in Threads |-> Locals0(t)]
    /\ spawned = 0
    /\ hb = FALSE
    /\ pending = stream
    /\ started = FALSE
    /\ netUp = TRUE
    /\ nContinue = 0
    /\ nStop = 0
    /\ nRelease = 0
    /\ relErr = Nil
    /\ stopErr = Nil
    /\ yielded = <<>>
    /\ firstErr = Nil
    /\ fetchFailed = FALSE
    /\ errRet = Nil
    /\ qh = QH0

Init == stream \in Streams /\ Boot

\* the same cursor, for streams of plain numbers only
InitPlain == stream \in PlainStreams \cup FeedStreams /\ Boot

(***************************************************************************)
(* Helpers shared by the operations.                                       *)
(***************************************************************************)
\* handleError (lines 341-350): the value lastErr has afterwards
handleError(cur, err) == IF cur # Nil THEN err ELSE cur

\* a thread that takes the mutex synchronises with every earlier unlock
Sync(t) == hb' = (hb \/ (t = It /\ closed))

\* what an unsynchronised read of closed (Next, line 126) may return
RacyClosed == IF closed /\ ~hb THEN {TRUE, FALSE} ELSE {closed}

NoteErr(err) == firstErr' = IF firstErr = Nil THEN err ELSE firstErr

\* extend's decision to start a background fetchMore (line 365) and
\* loadNext's (line 192)
WantPrefetch(resp, fin) == QLen(resp) = 1 /\ ~fin

\* finished as extend computes it (line 361)
IsFinal(type) == type # SUCCESS_PARTIAL /\ type # SUCCESS_FEED

\* an extend that leaves the fetching flag as it is
extendKeepsFetching(reply) ==
    /\ responses' = QPushAll(responses, reply.responses)
    /\ finished' = IsFinal(reply.type)
    /\ fetching' = fetching
    /\ spawned' = IF WantPrefetch(responses', finished') THEN spawned + 1 ELSE spawned

\* extend (lines 353-368), called by the connection with one reply
extend(reply) ==
    /\ responses' = QPushAll(responses, reply.responses)
    /\ finished' = IsFinal(reply.type)
    /\ fetching' = 0
    /\ spawned' = IF WantPrefetch(responses', finished') THEN spawned + 1 ELSE spawned


(***************************************************************************)
(* The connection and the server.                                          *)
(***************************************************************************)
\* The query that creates the cursor hands its first reply to extend before
\* the cursor reaches the caller.
Start ==
    /\ ~started
    /\ mu = Free
    /\ extend(Head(pending))
    /\ pending' = Tail(pending)
    /\ started' = TRUE
    /\ UNCHANGED <<conn, lastErr, closed, buffer, mu, pc, loc, hb, stream, netUp,
                   nContinue, nStop, nRelease, relErr, stopErr, yielded, firstErr,
                   fetchFailed, errRet,
                   qh>>

\* The connection's socket goes away (conn.conn becomes nil).
ConnDrop ==
    /\ started
    /\ netUp
    /\ netUp' = FALSE
    /\ UNCHANGED <<conn, lastErr, fetching, closed, finished, buffer, responses, mu, pc,
                   loc, spawned, hb, stream, pending, started, nContinue, nStop,
                   nRelease, relErr, stopErr, yielded, firstErr, fetchFailed, errRet,
                   qh>>

(***************************************************************************)
(* fetchMore (lines 320-338), run by the iterating thread from loadNext or *)
(* by a goroutine.                                                         *)
(***************************************************************************)
\* a compare-and-swap that succeeds whatever the flag holds
CasFetchingAlways == TRUE

\* the compare-and-swap of line 323
CasFetching == fetching = 0

\* loadNext line 150: the iterating thread enters fetchMore
FetchCas ==
    /\ pc[It] = "fm_cas"
    /\ IF CasFetching
       THEN /\ fetching' = 1
            /\ pc' = [pc EXCEPT ![It] = "fm_lock"]
       ELSE /\ fetching' = fetching
            /\ pc' = [pc EXCEPT ![It] = "loadNext"]
    /\ UNCHANGED <<conn, lastErr, closed, finished, buffer, responses, mu, loc, spawned,
                   hb, stream, pending, started, netUp, nContinue, nStop, nRelease,
                   relErr, stopErr, yielded, firstErr, fetchFailed, errRet,
                   qh>>

\* the lowest goroutine slot not in use
FreeBg == {g \in BgIds : pc[g] = "idle"}
PickBg == CHOOSE g \in FreeBg : TRUE

\* a goroutine started by "go c.fetchMore()" runs its compare-and-swap
BgStart ==
    /\ spawned > 0
    /\ spawned' = spawned - 1
    /\ IF CasFetching
       THEN /\ FreeBg # {}
            /\ fetching' = 1
            /\ pc' = [pc EXCEPT ![PickBg] = "fm_lock"]
       ELSE /\ fetching' = fetching
            /\ pc' = pc
    /\ UNCHANGED <<conn, lastErr, closed, finished, buffer, responses, mu, loc, hb,
                   stream, pending, started, netUp, nContinue, nStop, nRelease, relErr,
                   stopErr, yielded, firstErr, fetchFailed, errRet,
                   qh>>

\* lines 324-331: read conn under the lock
FetchLock(t) ==
    /\ pc[t] = "fm_lock"
    /\ mu = Free
    /\ loc' = [loc EXCEPT ![t].conn = conn]
    /\ pc' = [pc EXCEPT ![t] = "fm_query"]
    /\ Sync(t)
    /\ UNCHANGED <<conn, lastErr, fetching, closed, finished, buffer, responses, mu,
                   spawned, stream, pending, started, netUp, nContinue, nStop, nRelease,
                   relErr, stopErr, yielded, firstErr, fetchFailed, errRet,
                   qh>>

\* line 333: conn.Query(CONTINUE) is called; a nil connection sends nothing
FetchQuery(t) ==
    /\ pc[t] = "fm_query"
    /\ IF loc[t].conn = Nil
       THEN /\ loc' = [loc EXCEPT ![t].err = ErrConnectionClosed]
            /\ pc' = [pc EXCEPT ![t] = "fm_herr"]
            /\ nContinue' = nContinue
       ELSE /\ loc' = loc
            /\ pc' = [pc EXCEPT ![t] = "fm_wait"]
            /\ nContinue' = nContinue + 1
    /\ UNCHANGED <<conn, lastErr, fetching, closed, finished, buffer, responses, mu,
                   spawned, hb, stream, pending, started, netUp, nStop, nRelease, relErr,
                   stopErr, yielded, firstErr, fetchFailed, errRet,
                   qh>>

\* the server answers the CONTINUE: the connection hands the reply to extend
\* and Query returns without error
FetchReply(t) ==
    /\ pc[t] = "fm_wait"
    /\ netUp
    /\ pending # <<>>
    /\ mu = Free
    /\ extend(Head(pending))
    /\ pending' = Tail(pending)
    /\ loc' = [loc EXCEPT ![t].err = Nil]
    /\ pc' = [pc EXCEPT ![t] = "fm_herr"]
    /\ Sync(t)
    /\ UNCHANGED <<conn, lastErr, closed, buffer, mu, stream, started, netUp, nContinue,
                   nStop, nRelease, relErr, stopErr, yielded, firstErr, fetchFailed, errRet,
                   qh>>

\* the CONTINUE fails: Query returns an error and extend is not called
FetchFail(t) ==
    /\ pc[t] = "fm_wait"
    /\ loc' = [loc EXCEPT ![t].err = ErrQuery]
    /\ pc' = [pc EXCEPT ![t] = "fm_herr"]
    /\ UNCHANGED <<conn, lastErr, fetching, closed, finished, buffer, responses, mu,
                   spawned, hb, stream, pending, started, netUp, nContinue, nStop,
                   nRelease, relErr, stopErr, yielded, firstErr, fetchFailed, errRet,
                   qh>>

\* lines 334-337: handleError(err), return err.  In loadNext (lines 151-154)
\* an error ends the call and nil goes round the loop again.
FetchHandleError(t) ==
    /\ pc[t] = "fm_herr"
    /\ mu = Free
    /\ lastErr' = handleError(lastErr, loc[t].err)
    /\ NoteErr(loc[t].err)
    /\ fetchFailed' = (fetchFailed \/ loc[t].err # Nil)
    /\ Sync(t)
    /\ IF t = It
       THEN IF loc[t].err # Nil
            THEN /\ pc' = [pc EXCEPT ![t] = "n_herr"]
                 /\ loc' = [loc EXCEPT ![t].hasMore = FALSE, ![t].conn = Nil]
            ELSE /\ pc' = [pc EXCEPT ![t] = "loadNext"]
                 /\ loc' = [loc EXCEPT ![t].conn = Nil]
       ELSE /\ pc' = [pc EXCEPT ![t] = "idle"]
            /\ loc' = [loc EXCEPT ![t] = Locals0(t)]
    /\ UNCHANGED <<conn, fetching, closed, finished, buffer, responses, mu, spawned,
                   stream, pending, started, netUp, nContinue, nStop, nRelease, relErr,
                   stopErr, yielded, errRet,
                   qh>>


(***************************************************************************)
(* Next (lines 125-137) and loadNext (lines 139-211), run by the iterating *)
(* thread.                                                                 *)
(***************************************************************************)
\* line 126: closed is read without the lock
NextCall ==
    /\ pc[It] = "idle"
    /\ started
    /\ \E seen \in RacyClosed :
         /\ pc' = [pc EXCEPT ![It] = IF seen THEN "n_ret" ELSE "loadNext"]
         /\ loc' = [loc EXCEPT ![It] = [L0 EXCEPT !.afterFail = fetchFailed,
                                                  !.callClosed = closed]]
    /\ UNCHANGED <<conn, lastErr, fetching, closed, finished, buffer, responses, mu,
                   spawned, hb, stream, pending, started, netUp, nContinue, nStop,
                   nRelease, relErr, stopErr, yielded, firstErr, fetchFailed, errRet,
                   qh>>

\* the loop condition of line 143
MustWait == lastErr = Nil /\ QLen(buffer) = 0 /\ QLen(responses) = 0 /\ ~finished

\* lines 191-202, with the lock held and buf the buffer at that point: start
\* a background fetch if one batch is queued, then pop one row
LoadTail(buf) ==
    /\ spawned' = IF WantPrefetch(responses, finished) THEN spawned + 1 ELSE spawned
    /\ IF QLen(buf) = 0
       THEN /\ buffer' = buf
            /\ pc' = [pc EXCEPT ![It] = "n_herr"]
            /\ loc' = [loc EXCEPT ![It].hasMore = FALSE, ![It].err = Nil,
                                  ![It].value = NilValue]
       ELSE /\ buffer' = QPop(buf)
            /\ pc' = [pc EXCEPT ![It] = "decode"]
            /\ loc' = [loc EXCEPT ![It].data = QPopElem(buf), ![It].value = NilValue]

\* lines 140-164 and, when rows are buffered, on to 191-202.  Returning
\* errCursorClosed at line 146 leaves the mutex locked.
LoadNext ==
    /\ pc[It] = "loadNext"
    /\ mu = Free
    /\ Sync(It)
    /\ IF MustWait
       THEN IF closed
            THEN /\ mu' = It
                 /\ pc' = [pc EXCEPT ![It] = "n_herr"]
                 /\ loc' = [loc EXCEPT ![It].hasMore = FALSE, ![It].err = errCursorClosed]
                 /\ UNCHANGED <<buffer, responses, spawned>>
            ELSE /\ pc' = [pc EXCEPT ![It] = "fm_cas"]
                 /\ UNCHANGED <<mu, loc, buffer, responses, spawned>>
       ELSE IF QLen(buffer) = 0 /\ QLen(responses) = 0 /\ finished
            THEN /\ pc' = [pc EXCEPT ![It] = "n_herr"]
                 /\ loc' = [loc EXCEPT ![It].hasMore = FALSE, ![It].err = Nil]
                 /\ UNCHANGED <<mu, buffer, responses, spawned>>
            ELSE IF QLen(buffer) = 0 /\ QLen(responses) > 0
                 THEN /\ responses' = QPop(responses)
                      /\ loc' = [loc EXCEPT ![It].raw = QPopElem(responses)]
                      /\ pc' = [pc EXCEPT ![It] = "unmarshal"]
                      /\ UNCHANGED <<mu, buffer, spawned>>
                 ELSE /\ LoadTail(buffer)
                      /\ UNCHANGED <<mu, responses>>
    /\ UNCHANGED <<conn, lastErr, fetching, closed, finished, stream, pending, started,
                   netUp, nContinue, nStop, nRelease, relErr, stopErr, yielded, firstErr,
                   fetchFailed, errRet,
                   qh>>

\* lines 165-170: json.Unmarshal and handleError of its error
Unmarshal ==
    /\ pc[It] = "unmarshal"
    /\ mu = Free
    /\ Sync(It)
    /\ LET u == JsonUnmarshal(loc[It].raw)
       IN  /\ lastErr' = handleError(lastErr, u.err)
           /\ NoteErr(u.err)
           /\ IF u.err # Nil
              THEN /\ pc' = [pc EXCEPT ![It] = "n_herr"]
                   /\ loc' = [loc EXCEPT ![It].hasMore = FALSE, ![It].err = u.err,
                                         ![It].raw = Nil]
              ELSE /\ pc' = [pc EXCEPT ![It] = "pseudotype"]
                   /\ loc' = [loc EXCEPT ![It].value = u.value, ![It].raw = Nil]
    /\ UNCHANGED <<conn, fetching, closed, finished, buffer, responses, mu, spawned,
                   stream, pending, started, netUp, nContinue, nStop, nRelease, relErr,
                   stopErr, yielded, fetchFailed, errRet,
                   qh>>

\* lines 172-176: recursivelyConvertPseudotype and handleError of its error
Pseudotype ==
    /\ pc[It] = "pseudotype"
    /\ mu = Free
    /\ Sync(It)
    /\ LET c == recursivelyConvertPseudotype(loc[It].value)
       IN  /\ lastErr' = handleError(lastErr, c.err)
           /\ NoteErr(c.err)
           /\ IF c.err # Nil
              THEN /\ pc' = [pc EXCEPT ![It] = "n_herr"]
                   /\ loc' = [loc EXCEPT ![It].hasMore = FALSE, ![It].err = c.err,
                                         ![It].value = NilValue]
              ELSE /\ pc' = [pc EXCEPT ![It] = "push"]
                   /\ loc' = [loc EXCEPT ![It].value = c.value]
    /\ UNCHANGED <<conn, fetching, closed, finished, buffer, responses, mu, spawned,
                   stream, pending, started, netUp, nContinue, nStop, nRelease, relErr,
                   stopErr, yielded, fetchFailed, errRet,
                   qh>>

\* lines 178-202: push the rows of the decoded batch, then the tail
Push ==
    /\ pc[It] = "push"
    /\ mu = Free
    /\ Sync(It)
    /\ LoadTail(QPushAll(buffer, RowsOf(loc[It].value)))
    /\ UNCHANGED <<conn, lastErr, fetching, closed, finished, responses, mu, stream,
                   pending, started, netUp, nContinue, nStop, nRelease, relErr, stopErr,
                   yielded, firstErr, fetchFailed, errRet,
                   qh>>

\* lines 204-210: encoding.Decode into dest and handleError of its error
DecodeRow ==
    /\ pc[It] = "decode"
    /\ mu = Free
    /\ Sync(It)
    /\ LET err == Decode(loc[It].data)
       IN  /\ lastErr' = handleError(lastErr, err)
           /\ NoteErr(err)
           /\ pc' = [pc EXCEPT ![It] = "n_herr"]
           /\ loc' = [loc EXCEPT ![It].hasMore = (err = Nil), ![It].err = err]
    /\ UNCHANGED <<conn, fetching, closed, finished, buffer, responses, mu, spawned,
                   stream, pending, started, netUp, nContinue, nStop, nRelease, relErr,
                   stopErr, yielded, fetchFailed, errRet,
                   qh>>

\* lines 131-136: handleError(err); a non-nil result closes the cursor and
\* returns false, otherwise Next returns hasMore
NextHandleError ==
    /\ pc[It] = "n_herr"
    /\ mu = Free
    /\ Sync(It)
    /\ lastErr' = handleError(lastErr, loc[It].err)
    /\ NoteErr(loc[It].err)
    /\ IF lastErr' # Nil
       THEN /\ pc' = [pc EXCEPT ![It] = "close"]
            /\ loc' = [loc EXCEPT ![It].hasMore = FALSE]
            /\ yielded' = yielded
       ELSE /\ pc' = [pc EXCEPT ![It] = "n_ret"]
            /\ loc' = loc
            /\ yielded' = IF loc[It].hasMore THEN Append(yielded, loc[It].data)
                          ELSE yielded
    /\ UNCHANGED <<conn, fetching, closed, finished, buffer, responses, mu, spawned,
                   stream, pending, started, netUp, nContinue, nStop, nRelease, relErr,
                   stopErr, fetchFailed, errRet,
                   qh>>

\* Next has returned loc[It].hasMore; the caller goes on
NextReturn ==
    /\ pc[It] = "n_ret"
    /\ loc[It].op = "none"
    /\ pc' = [pc EXCEPT ![It] = "idle"]
    /\ loc' = [loc EXCEPT ![It] = L0]
    /\ UNCHANGED <<conn, lastErr, fetching, closed, finished, buffer, responses, mu,
                   spawned, hb, stream, pending, started, netUp, nContinue, nStop,
                   nRelease, relErr, stopErr, yielded, firstErr, fetchFailed, errRet,
                   qh>>

(***************************************************************************)
(* Close (lines 81-114), called by the closing thread or by Next, and Err. *)
(***************************************************************************)
\* the STOP requests sent before thread t's Close call
StopsBefore(t) == IF pc[t] = "close_stop" THEN nStop - 1 ELSE nStop

\* thread t is at the call of Close: Next's at line 132, All's and One's after
\* their Err() check, the closing thread's whenever it is idle
AtClose(t) == IF t = It THEN pc[t] \in {"close", "op_close"} ELSE pc[t] = "idle" /\ started

\* what All (lines 246-253) and One (lines 265-278) return once their Close
\* call has returned err
OpResult(l, err) ==
    IF l.err # Nil THEN l.err
    ELSE IF err # Nil THEN err
    ELSE IF l.op = "One" /\ ~l.hasMore THEN ErrEmptyResult
    ELSE Nil

\* Close returns err to thread t
CloseDone(t, err) ==
    IF t = It
    THEN IF loc[t].errChecked
         THEN /\ pc' = [pc EXCEPT ![t] = "op_ret"]
              /\ loc' = [loc EXCEPT ![t].err = OpResult(loc[t], err), ![t].ret = loc[t].op]
         ELSE /\ pc' = [pc EXCEPT ![t] = "n_ret"]
              /\ loc' = loc
    ELSE /\ pc' = [pc EXCEPT ![t] = "idle"]
         /\ loc' = [loc EXCEPT ![t] = [LCl0 EXCEPT !.err = err, !.ret = "Close",
                                                 !.callClosed = closed,
                                                 !.callStops = StopsBefore(t)]]

\* lines 87-97: the early returns of Close
CloseIsNoop == closed \/ conn = Nil \/ ~netUp

\* line 100: an unfinished query is stopped
NeedsStop == ~closed /\ ~finished

\* a Close that releases the connection but leaves the cursor open and
\* attached
CloseFinishKeepsOpen(t, err) ==
    /\ closed' = closed
    /\ conn' = conn
    /\ nRelease' = nRelease + 1
    /\ relErr' = err
    /\ hb' = hb
    /\ CloseDone(t, err)

\* a Close that returns a STOP error before completing the close
CloseFinishAbortsOnError(t, err) ==
    IF err # Nil
    THEN /\ UNCHANGED <<closed, conn, nRelease, relErr, hb>>
         /\ CloseDone(t, err)
    ELSE /\ closed' = TRUE
         /\ conn' = Nil
         /\ nRelease' = nRelease + 1
         /\ relErr' = err
         /\ hb' = (t = It)
         /\ CloseDone(t, err)

\* lines 109-113: mark closed, detach the connection, release it
CloseFinish(t, err) ==
    /\ closed' = TRUE
    /\ conn' = Nil
    /\ nRelease' = nRelease + 1
    /\ relErr' = err
    /\ hb' = (t = It)
    /\ CloseDone(t, err)

\* lines 82-107: lock, the early returns, and the STOP request, which is sent
\* with the mutex held
Close(t) ==
    /\ AtClose(t)
    /\ mu = Free
    /\ IF CloseIsNoop
       THEN /\ CloseDone(t, Nil)
            /\ Sync(t)
            /\ UNCHANGED <<conn, closed, mu, nStop, nRelease, relErr>>
       ELSE IF NeedsStop
            THEN /\ mu' = t
                 /\ nStop' = nStop + 1
                 /\ pc' = [pc EXCEPT ![t] = "close_stop"]
                 /\ loc' = [loc EXCEPT ![t].ret = "none"]
                 /\ Sync(t)
                 /\ UNCHANGED <<conn, closed, nRelease, relErr>>
            ELSE /\ CloseFinish(t, Nil)
                 /\ UNCHANGED <<mu, nStop>>
    /\ UNCHANGED <<lastErr, fetching, finished, buffer, responses, spawned, stream,
                   pending, started, netUp, nContinue, stopErr, yielded, firstErr,
                   fetchFailed, errRet,
                   qh>>

\* line 106 returns: the STOP request succeeded or failed; lines 109-113
CloseStopReply(t) ==
    /\ pc[t] = "close_stop"
    /\ \E err \in (IF netUp THEN {Nil, ErrStop} ELSE {ErrStop}) :
         /\ stopErr' = err
         /\ CloseFinish(t, err)
    /\ mu' = Free
    /\ UNCHANGED <<lastErr, fetching, finished, buffer, responses, spawned, stream,
                   pending, started, netUp, nContinue, nStop, yielded, firstErr,
                   fetchFailed, errRet,
                   qh>>

\* Err (lines 72-77), called by the closing thread
ErrCall ==
    /\ pc[Cl] = "idle"
    /\ started
    /\ mu = Free
    /\ errRet' = lastErr
    /\ UNCHANGED <<conn, lastErr, fetching, closed, finished, buffer, responses, mu, pc,
                   loc, spawned, hb, stream, pending, started, netUp, nContinue, nStop,
                   nRelease, relErr, stopErr, yielded, firstErr, fetchFailed,
                   qh>>

(***************************************************************************)
(* All (lines 218-254), One (lines 258-279) and IsNil (lines 282-314), run *)
(* by the iterating thread.                                                *)
(***************************************************************************)
\* the slices a caller hands to All: nil, or allocated and holding old values
DestSlices == {[k \in 1..c |-> "old"] : c \in 0..MaxDestCap}

\* reflect.Append followed by Slice(0, Cap) (lines 233-234): the row is
\* appended, the capacity doubles and the new slots hold the zero value
AppendRow(sl, row) ==
    LET c == Len(sl)
        n == IF c = 0 THEN 1 ELSE 2 * c
    IN  [k \in 1..n |-> IF k <= c THEN sl[k] ELSE IF k = c + 1 THEN row ELSE "zero"]

\* lines 228-239: the row Next decoded lands in slot i of the slice
StoreRow(sl, i, row) == IF Len(sl) = i THEN AppendRow(sl, row) ELSE [sl EXCEPT ![i + 1] = row]

\* an IsNil that looks at the decoded rows only
IsNilIgnoresRaw(buf, resp) == QLen(buf) > 0 /\ QPeek(buf) = Nil

\* IsNil (lines 282-314) on the two queues
IsNil(buf, resp) ==
    IF QLen(buf) > 0 THEN QPeek(buf) = Nil
    ELSE IF QLen(resp) > 0 THEN QPeek(resp) = Nil \/ QPeek(resp) = RawNull
    ELSE TRUE

\* the locals of a Next call made by the operation whose locals are l
NextLocals(l) ==
    [L0 EXCEPT !.afterFail = fetchFailed, !.callClosed = closed, !.op = l.op,
               !.slicev = l.slicev, !.i = l.i]

\* Next is called (line 126: closed is read without the lock)
EnterNext(l) ==
    \E seen \in RacyClosed :
       /\ pc' = [pc EXCEPT ![It] = IF seen THEN "n_ret" ELSE "loadNext"]
       /\ loc' = [loc EXCEPT ![It] = NextLocals(l)]

\* lines 218-229: All is called, on a cursor that has delivered no row yet,
\* and calls Next for slot 0
AllCall ==
    /\ pc[It] = "idle"
    /\ started
    /\ yielded = <<>>
    /\ \E sl \in DestSlices :
         EnterNext([L0 EXCEPT !.op = "All", !.slicev = sl])
    /\ UNCHANGED <<conn, lastErr, fetching, closed, finished, buffer, responses, mu,
                   spawned, hb, stream, pending, started, netUp, nContinue, nStop,
                   nRelease, relErr, stopErr, yielded, firstErr, fetchFailed, errRet,
                   qh>>

\* lines 227-241: Next returned true; the row is kept and Next called again
AllLoop ==
    /\ pc[It] = "n_ret"
    /\ loc[It].op = "All"
    /\ loc[It].hasMore
    /\ EnterNext([loc[It] EXCEPT !.slicev = StoreRow(loc[It].slicev, loc[It].i, loc[It].data),
                                 !.i = loc[It].i + 1])
    /\ UNCHANGED <<conn, lastErr, fetching, closed, finished, buffer, responses, mu,
                   spawned, hb, stream, pending, started, netUp, nContinue, nStop,
                   nRelease, relErr, stopErr, yielded, firstErr, fetchFailed, errRet,
                   qh>>

\* All after its loop (lines 242-244) and One after its Next (lines 263-265):
\* the slice is cut to i rows and Err() is called
OpErr ==
    /\ pc[It] = "n_ret"
    /\ \/ loc[It].op = "One"
       \/ loc[It].op = "All" /\ ~loc[It].hasMore
    /\ mu = Free
    /\ Sync(It)
    /\ pc' = [pc EXCEPT ![It] = "op_close"]
    /\ loc' = [loc EXCEPT ![It].nextErr = loc[It].err,
                          ![It].err = lastErr,
                          ![It].errChecked = TRUE,
                          ![It].slicev = SubSeq(loc[It].slicev, 1, loc[It].i)]
    /\ UNCHANGED <<conn, lastErr, fetching, closed, finished, buffer, responses, mu,
                   spawned, stream, pending, started, netUp, nContinue, nStop, nRelease,
                   relErr, stopErr, yielded, firstErr, fetchFailed, errRet,
                   qh>>

\* lines 258-261: One is called; IsNil peeks under the lock and a nil head
\* makes One return ErrEmptyResult at once
OneCall ==
    /\ pc[It] = "idle"
    /\ started
    /\ mu = Free
    /\ Sync(It)
    /\ IF IsNil(buffer, responses)
       THEN /\ pc' = [pc EXCEPT ![It] = "op_ret"]
            /\ loc' = [loc EXCEPT ![It] = [L0 EXCEPT !.op = "One", !.ret = "One",
                                                     !.err = ErrEmptyResult]]
       ELSE /\ pc' = [pc EXCEPT ![It] = "one_next"]
            /\ loc' = [loc EXCEPT ![It] = [L0 EXCEPT !.op = "One"]]
    /\ UNCHANGED <<conn, lastErr, fetching, closed, finished, buffer, responses, mu,
                   spawned, stream, pending, started, netUp, nContinue, nStop, nRelease,
                   relErr, stopErr, yielded, firstErr, fetchFailed, errRet,
                   qh>>

\* line 263: One calls Next
OneNext ==
    /\ pc[It] = "one_next"
    /\ EnterNext(loc[It])
    /\ UNCHANGED <<conn, lastErr, fetching, closed, finished, buffer, responses, mu,
                   spawned, hb, stream, pending, started, netUp, nContinue, nStop,
                   nRelease, relErr, stopErr, yielded, firstErr, fetchFailed, errRet,
                   qh>>

\* All or One has returned loc[It].err; the caller goes on
OpReturn ==
    /\ pc[It] = "op_ret"
    /\ pc' = [pc EXCEPT ![It] = "idle"]
    /\ loc' = [loc EXCEPT ![It] = L0]
    /\ UNCHANGED <<conn, lastErr, fetching, closed, finished, buffer, responses, mu,
                   spawned, hb, stream, pending, started, netUp, nContinue, nStop,
                   nRelease, relErr, stopErr, yielded, firstErr, fetchFailed, errRet,
                   qh>>

\* the cursor iterated with Next, closed with Close and asked for Err
NextIter ==
    \/ Start
    \/ ConnDrop
    \/ FetchCas
    \/ BgStart
    \/ \E t \in Fetchers : FetchLock(t)
    \/ \E t \in Fetchers : FetchQuery(t)
    \/ \E t \in Fetchers : FetchReply(t)
    \/ \E t \in Fetchers : FetchFail(t)
    \/ \E t \in Fetchers : FetchHandleError(t)
    \/ NextCall
    \/ LoadNext
    \/ Unmarshal
    \/ Pseudotype
    \/ Push
    \/ DecodeRow
    \/ NextHandleError
    \/ NextReturn
    \/ \E t \in Callers : Close(t)
    \/ \E t \in Callers : CloseStopReply(t)
    \/ ErrCall

\* every operation of the cursor
Next ==
    \/ NextIter
    \/ AllCall
    \/ AllLoop
    \/ OpErr
    \/ OneCall
    \/ OneNext
    \/ OpReturn

Spec == Init /\ [][Next]_vars

\* streams of plain numbers, consumed with Next
SpecPlain == InitPlain /\ [][NextIter]_vars


(***************************************************************************)
(* The queue on its own (lines 372-428): any interleaving of Push, Pop and *)
(* Peek calls, from the empty queue.                                       *)
(***************************************************************************)
QueuePush ==
    /\ qh.pushes < MaxPushes
    /\ LET v == QueueValue(qh.pushes + 1)
       IN  qh' = [q |-> QPush(qh.q, v),
                  ref |-> Append(qh.ref, v),
                  last |-> "push",
                  got |-> Nil,
                  pushes |-> qh.pushes + 1,
                  pops |-> qh.pops,
                  wrapped |-> (qh.wrapped \/
                               (qh.q.nelems = Len(qh.q.elems) /\ qh.q.popi # 0))]
    /\ UNCHANGED cursorVars

QueuePop ==
    /\ qh' = [qh EXCEPT !.q = QPop(qh.q),
                        !.ref = IF qh.ref = <<>> THEN <<>> ELSE Tail(qh.ref),
                        !.last = "pop",
                        !.got = QPopElem(qh.q),
                        !.pops = IF qh.q.nelems = 0 THEN qh.pops ELSE qh.pops + 1]
    /\ UNCHANGED cursorVars

QueuePeek ==
    /\ qh' = [qh EXCEPT !.last = "peek", !.got = QPeek(qh.q)]
    /\ UNCHANGED cursorVars

NextQueue == QueuePush \/ QueuePop \/ QueuePeek

InitQueue == stream = <<>> /\ Boot

SpecQueue == InitQueue /\ [][NextQueue]_vars


(***************************************************************************)
(* Properties.                                                             *)
(***************************************************************************)
IsPrefix(a, b) == Len(a) <= Len(b) /\ \A i \in 1..Len(a) : a[i] = b[i]

\* every batch of the stream decodes, into dest too
Decodable(st) ==
    \A i \in 1..Len(AllRaw(st)) : AllRaw(st)[i] \notin {RawBadJSON, RawBadTime, RawString}

\* the last reply of the stream is final
EndsFinal(st) == IsFinal(st[Len(st)].type)

\* nobody closed the cursor, the connection stayed up and no CONTINUE failed
\* while the server still had a reply to send
Undisturbed ==
    /\ ~closed
    /\ nStop = 0
    /\ netUp
    /\ fetchFailed => pending = <<>>

\* C1: for a stream of replies that all decode, the last one final, the rows
\* Next delivers are a prefix of the stream's rows in arrival order, and when
\* Next returns false on an undisturbed cursor every row has been delivered
\* and Err() is nil.
C1_DrainsAllRowsInOrder ==
    (Decodable(stream) /\ EndsFinal(stream)) =>
        /\ IsPrefix(yielded, Expected(stream))
        /\ (pc[It] = "n_ret" /\ ~loc[It].hasMore /\ Undisturbed) =>
              (yielded = Expected(stream) /\ lastErr = Nil)

\* the CONTINUE requests in flight: sent and not yet answered
InFlight == {t \in Fetchers : pc[t] = "fm_wait"}

\* C2: at most one CONTINUE request of the cursor is in flight.
C2_OneContinueInFlight == Cardinality(InFlight) <= 1

\* C2 witness: a background CONTINUE is in flight while the iterating thread,
\* waiting in loadNext, is at fetchMore's compare-and-swap.
C2_Witness == pc[It] = "fm_cas" /\ (InFlight \cap BgIds) # {}

\* C3: once an error has been handed to handleError, Err() returns that first
\* error in every later state.
C3_FirstErrorSticks == firstErr # Nil => lastErr = firstErr

\* C4: when Next returns after loadNext surfaced an error, the cursor is
\* closed and the release callback has been invoked.
C4_ErrorClosesCursor ==
    (pc[It] = "n_ret" /\ loc[It].err # Nil) => (closed /\ nRelease = 1)

\* C5: a Next call that starts after fetchMore has reported a failed CONTINUE
\* request returns false.
C5_FailedFetchEndsStream ==
    (pc[It] = "n_ret" /\ loc[It].afterFail) => ~loc[It].hasMore

\* C6: at most one STOP request is ever sent, a STOP is sent only by a Close
\* that finds the cursor open and the stream unfinished, and a Close call on
\* a closed cursor returns nil without sending a request.
C6_CloseIdempotent ==
    /\ nStop <= 1
    /\ \A t \in Callers : pc[t] = "close_stop" => (~finished /\ ~closed /\ mu = t)
    /\ (loc[Cl].ret = "Close" /\ loc[Cl].callClosed) =>
          (loc[Cl].err = Nil /\ nStop = loc[Cl].callStops)

\* C6 witness: a Close call on a cursor that an earlier Close closed with a
\* STOP request has returned.
C6_Witness == loc[Cl].ret = "Close" /\ loc[Cl].callClosed /\ nStop = 1

\* C7: releaseConn has been invoked once if the cursor is closed and never
\* otherwise; it received the result of the STOP request; and a failed STOP
\* request leaves the cursor closed with its connection detached.
C7_ReleasedOnceAtClose ==
    /\ nRelease = (IF closed THEN 1 ELSE 0)
    /\ closed => (relErr = stopErr /\ conn = Nil)
    /\ stopErr # Nil => closed

\* C7 witness: the cursor was closed by a Close whose STOP request failed.
C7_Witness == closed /\ stopErr = ErrStop /\ nRelease = 1

\* C8: once closed is true no CONTINUE and no STOP request is sent.
C8_NoRequestAfterClose ==
    [][closed => (nContinue' = nContinue /\ nStop' = nStop)]_vars

\* C9: once finished is true no CONTINUE request is sent.
C9_NoContinueAfterFinished == [][finished => nContinue' = nContinue]_vars

\* C10: when loadNext fails with the cursor-closed condition, the iterating
\* thread does not keep the cursor's lock.
C10_ClosedWhileWaitingFreesLock ==
    (pc[It] = "n_herr" /\ loc[It].err = errCursorClosed) => mu # It

\* C11: when a Next call returns false on a cursor that is still open, either
\* the stream is finished and both queues are empty, or loadNext failed in
\* that call and Err() returns an error.
C11_FalseOnlyAtEndOrError ==
    (pc[It] = "n_ret" /\ ~loc[It].hasMore /\ ~closed) =>
        \/ (finished /\ QLen(buffer) = 0 /\ QLen(responses) = 0)
        \/ (loc[It].err # Nil /\ lastErr # Nil)

\* C12: a raw batch that is the JSON null makes loadNext push exactly one nil
\* marker and pop it as the row; decoding it succeeds; and Next returns true,
\* the nil row taking one position of the rows delivered.
C12_NullRowIsARow ==
    [][/\ (pc[It] = "push" /\ loc[It].value.kind = "nil" /\ pc'[It] # "push") =>
             /\ QContents(QPushAll(buffer, RowsOf(loc[It].value))) =
                    Append(QContents(buffer), Nil)
             /\ pc'[It] = "decode"
             /\ loc'[It].data = Nil
             /\ QLen(buffer') = QLen(buffer)
       /\ (pc[It] = "decode" /\ loc[It].data = Nil /\ pc'[It] # "decode") =>
             (pc'[It] = "n_herr" /\ loc'[It].hasMore /\ loc'[It].err = Nil)
       /\ (pc[It] = "n_herr" /\ loc[It].hasMore /\ loc[It].data = Nil
              /\ pc'[It] # "n_herr") =>
             (pc'[It] = "n_ret" /\ loc'[It].hasMore /\ yielded' = Append(yielded, Nil))
      ]_vars

\* C12 witness: Next has returned true for a null row.
C12_Witness ==
    /\ pc[It] = "n_ret"
    /\ loc[It].hasMore
    /\ loc[It].data = Nil
    /\ yielded # <<>>
    /\ yielded[Len(yielded)] = Nil

\* the closing thread has made no Close call
NoOtherClose == pc[Cl] = "idle" /\ loc[Cl].ret = "none"

\* the last n elements of a sequence
LastRows(sq, n) == SubSeq(sq, Len(sq) - n + 1, Len(sq))

\* C13: when All returns nil, no other thread having closed the cursor and
\* the connection being up, the destination holds exactly the rows All's Next
\* calls delivered, every row of the stream has been delivered, the stream is
\* drained to its end and the cursor is closed; when All's last Next call
\* failed with an error, All returns that error and, the connection being
\* up, the cursor is closed.
C13_AllReturnsEveryRow ==
    (pc[It] = "op_ret" /\ loc[It].ret = "All") =>
        /\ (loc[It].err = Nil /\ NoOtherClose /\ netUp) =>
              /\ Len(loc[It].slicev) = loc[It].i
              /\ loc[It].slicev = LastRows(yielded, loc[It].i)
              /\ yielded = Expected(stream)
              /\ finished /\ QLen(buffer) = 0 /\ QLen(responses) = 0
              /\ closed
        /\ loc[It].nextErr # Nil => (loc[It].err = loc[It].nextErr /\ (netUp => closed))

\* C14: when One has returned, whatever it returned, the cursor is closed and
\* its connection has been released.
C14_OneClosesCursor ==
    (pc[It] = "op_ret" /\ loc[It].ret = "One") => (closed /\ nRelease = 1)

\* the head of buffer is the nil marker, or buffer is empty and the head raw
\* batch is null
HeadIsNull ==
    \/ QLen(buffer) > 0 /\ QPeek(buffer) = Nil
    \/ QLen(buffer) = 0 /\ QLen(responses) > 0 /\ QPeek(responses) = RawNull

\* C15: a One call that finds a null head returns ErrEmptyResult in the step
\* that peeks, and that step sends no CONTINUE, sends no STOP and leaves both
\* queues as they were.
C15_OneOnNullOnlyPeeks ==
    [][(pc[It] = "idle" /\ pc'[It] # "idle" /\ loc'[It].op = "One" /\ HeadIsNull) =>
          /\ pc'[It] = "op_ret"
          /\ loc'[It].ret = "One"
          /\ loc'[It].err = ErrEmptyResult
          /\ buffer' = buffer
          /\ responses' = responses
          /\ nContinue' = nContinue
          /\ nStop' = nStop
      ]_vars

\* C15 witness: One has returned ErrEmptyResult from its IsNil check with a
\* null raw batch at the head of responses.
C15_Witness ==
    /\ pc[It] = "op_ret"
    /\ loc[It].ret = "One"
    /\ loc[It].err = ErrEmptyResult
    /\ ~loc[It].errChecked
    /\ QLen(buffer) = 0
    /\ QLen(responses) > 0
    /\ QPeek(responses) = RawNull

\* C16: a thread that is inside conn.Query, for a CONTINUE or for a STOP,
\* does not hold the cursor's mutex.
C16_NoLockAcrossRequest ==
    \A t \in Threads : pc[t] \in {"fm_wait", "close_stop"} => mu # t

\* the iterating thread takes the step that enters Next and reads closed
\* (line 126)
ReadsClosedInNext ==
    /\ pc[It] \in {"idle", "one_next", "n_ret"}
    /\ pc'[It] \in {"n_ret", "loadNext"}
    /\ <<pc'[It], loc'[It]>> # <<pc[It], loc[It]>>

\* C17: closed is read only by a thread that has the mutex to itself: the
\* step in which Next reads closed is never taken while another thread holds
\* the mutex.
C17_ClosedReadUnderLock == [][ReadsClosedInNext => mu = Free]_vars

\* C18: the step in which the connection hands a reply to extend appends the
\* reply's batches to the tail of responses in order, sets finished exactly
\* when the reply is neither partial nor a feed, resets fetching, starts one
\* background fetchMore exactly when responses then holds one batch and the
\* stream is not finished, and leaves buffer, closed and lastErr alone.
C18_ExtendFrame ==
    [][pending' # pending =>
          /\ QContents(responses') = QContents(responses) \o Head(pending).responses
          /\ finished' = (Head(pending).type \notin {SUCCESS_PARTIAL, SUCCESS_FEED})
          /\ fetching' = 0
          /\ spawned' = spawned + (IF QLen(responses') = 1 /\ ~finished' THEN 1 ELSE 0)
          /\ buffer' = buffer
          /\ closed' = closed
          /\ lastErr' = lastErr
      ]_vars

\* C18 witness: before any Next call, extend has queued the single batch of
\* a reply that is not final and started a background fetchMore.
C18_Witness ==
    /\ Len(pending) < Len(stream)
    /\ yielded = <<>>
    /\ pc[It] = "idle"
    /\ QContents(responses) = stream[1].responses
    /\ QLen(responses) = 1
    /\ ~finished
    /\ fetching = 0
    /\ spawned = 1

\* C19: the queue is a FIFO.  After every call its live elements, head
\* first, are the reference sequence; Pop returns the reference head, Peek
\* returns it and leaves the queue as it was, and on an empty queue both
\* return nil and change nothing.
C19_QueueIsFifo ==
    [][qh' # qh =>
          /\ QContents(qh'.q) = qh'.ref
          /\ qh'.last = "pop" =>
                IF qh.ref = <<>>
                THEN qh'.got = Nil /\ qh'.q = qh.q
                ELSE qh'.got = Head(qh.ref) /\ QLen(qh'.q) = Len(qh.ref) - 1
          /\ qh'.last = "peek" =>
                /\ qh'.q = qh.q
                /\ qh'.got = IF qh.ref = <<>> THEN Nil ELSE Head(qh.ref)
      ]_vars

\* C19 witness: a Pop has returned an element after expand ran on a wrapped
\* ring, twice grown.
C19_Witness ==
    /\ qh.wrapped
    /\ Len(qh.q.elems) = 4 * InitialCap
    /\ qh.last = "pop"
    /\ qh.got # Nil

\* the slots of the live range [popi, popi + nelems) mod len(elems)
LiveSlots(q) == {((q.popi + k) % Len(q.elems)) + 1 : k \in 0..(q.nelems - 1)}

QueueInv(q) ==
    /\ 0 <= q.nelems
    /\ q.nelems <= Len(q.elems)
    /\ Len(q.elems) > 0 => q.pushi = (q.popi + q.nelems) % Len(q.elems)
    /\ \A i \in 1..Len(q.elems) : i \notin LiveSlots(q) => q.elems[i] = Nil

\* C20: after any sequence of Push and Pop calls nelems is between 0 and
\* len(elems) and equals pushes minus successful pops, pushi is popi + nelems
\* mod len(elems), every slot outside the live range is nil, and len(elems)
\* never decreases.
C20_QueueInvariants ==
    /\ [](QueueInv(qh.q) /\ qh.q.nelems = qh.pushes - qh.pops)
    /\ [][Len(qh'.q.elems) >= Len(qh.q.elems)]_vars

\* C20 witness: a queue that has been popped, has grown while wrapped, and
\* has live elements and free slots.
C20_Witness ==
    /\ qh.wrapped
    /\ qh.pops > 0
    /\ qh.q.nelems > 0
    /\ qh.q.nelems < Len(qh.q.elems)
    /\ qh.q.pushi < qh.q.popi

====
